---- MODULE Spec2Model ----
(***************************************************************************)
(* Model of binary-layout's WrappedField (src/fields/wrapped.rs): a field  *)
(* adapter that reads/writes a domain type T through an inner field F      *)
(* whose high level type is U, using the conversion T: LayoutAs<U>.        *)
(*                                                                         *)
(* Storage is a byte sequence (index i+1 of the sequence is byte i of the  *)
(* Rust slice).  A panic is the value Abort.                               *)
(***************************************************************************)
EXTENDS Integers, Sequences, FiniteSets, TLC

VARIABLES storage, layout, targetEndian, view, last, lastWritten, initial

vars == <<storage, layout, targetEndian, view, last, lastWritten, initial>>

(***************************************************************************)
(* Values                                                                  *)
(***************************************************************************)
\* length of the caller's buffer (the tests use `vec![0; 1024]`)
StorageLen == 128

\* offsets of Field1 / Field2 in the tests
Offset1 == 5
Offset2 == 123

NoValue == <<"none">>
\* the outcome of a call: a returned value, or a panic
Ok(v) == [abort |-> FALSE, value |-> v]
Abort == [abort |-> TRUE, value |-> NoValue]
NoView == [mode |-> "none", field |-> "none"]
\* the value `()` of the unit type
UnitValue == 0

FieldNames == {"Field1", "Field2", "Unit1"}

Min(a, b) == IF a < b THEN a ELSE b

(***************************************************************************)
(* Byte order transcoding of the underlying types u16, i16 and ()          *)
(***************************************************************************)
SizeOf(type) == IF type = "unit" THEN 0 ELSE 2

\* the 16 bit pattern of a u16 / i16 (two's complement)
Bits16(v) == v % 65536

\* the u16 / i16 value of a 16 bit pattern
OfBits16(type, w) == IF type = "i16" /\ w >= 32768 THEN w - 65536 ELSE w

to_le_bytes(type, v) ==
    IF type = "unit" THEN <<>> ELSE <<Bits16(v) % 256, Bits16(v) \div 256>>

to_be_bytes(type, v) ==
    IF type = "unit" THEN <<>> ELSE <<Bits16(v) \div 256, Bits16(v) % 256>>

from_le_bytes(type, b) ==
    IF type = "unit" THEN UnitValue ELSE OfBits16(type, b[1] + 256 * b[2])

from_be_bytes(type, b) ==
    IF type = "unit" THEN UnitValue ELSE OfBits16(type, 256 * b[1] + b[2])

from_ne_bytes(type, b, target) ==
    IF target = "little" THEN from_le_bytes(type, b) ELSE from_be_bytes(type, b)

Encode(endian, type, v, target) ==
    CASE endian = "little" -> to_le_bytes(type, v)
      [] endian = "big"    -> to_be_bytes(type, v)
      [] endian = "native" -> IF target = "little" THEN to_le_bytes(type, v)
                                                   ELSE to_be_bytes(type, v)

Decode(endian, type, b, target) ==
    CASE endian = "little" -> from_le_bytes(type, b)
      [] endian = "big"    -> from_be_bytes(type, b)
      [] endian = "native" -> from_ne_bytes(type, b, target)

(***************************************************************************)
(* The inner field F = PrimitiveField<U, Endian, OFFSET>                   *)
(***************************************************************************)
PrimitiveField(type, endian, offset) ==
    [type |-> type, endian |-> endian, offset |-> offset]

PrimitiveField_OFFSET(F) == F.offset

PrimitiveField_SIZE(F) == <<"Some", SizeOf(F.type)>>

PrimitiveField_Endian(F) == F.endian

PrimitiveField_read(F, s, target) ==
    Decode(F.endian, F.type,
           SubSeq(s, F.offset + 1, F.offset + SizeOf(F.type)), target)

PrimitiveField_write(F, s, v, target) ==
    LET bytes == Encode(F.endian, F.type, v, target)
    IN  [i \in 1..Len(s) |->
            IF i - 1 >= F.offset /\ i - 1 < F.offset + SizeOf(F.type)
            THEN bytes[i - F.offset] ELSE s[i]]

(***************************************************************************)
(* Conversions T: LayoutAs<U>                                              *)
(*   Wrapped  the newtype of the tests, total and lossless                 *)
(*   Percent  total and lossy: read saturates at 100                       *)
(*   Mode     partial: read panics on an unknown discriminant, write       *)
(*            panics on the variant that has no discriminant               *)
(***************************************************************************)
Wrapped(v) == <<"Wrapped", v>>
Percent(p) == <<"Percent", p>>
Mode(m) == <<"Mode", m>>

LayoutAs_read(T, v) ==
    CASE T = "Wrapped" -> Ok(Wrapped(v))
      [] T = "Percent" -> Ok(Percent(Min(v, 100)))
      [] T = "Mode"    -> CASE v = 0 -> Ok(Mode("Off"))
                            [] v = 1 -> Ok(Mode("On"))
                            [] OTHER -> Abort

LayoutAs_write(T, t) ==
    CASE T = "Wrapped" -> Ok(t[2])
      [] T = "Percent" -> Ok(t[2])
      [] T = "Mode"    -> CASE t[2] = "Off" -> Ok(0)
                            [] t[2] = "On"  -> Ok(1)
                            [] OTHER        -> Abort

(***************************************************************************)
(* WrappedField<U, T, F>                                                   *)
(***************************************************************************)
WrappedField(U, T, F) == [U |-> U, T |-> T, F |-> F]

WrappedField_Endian(W) == PrimitiveField_Endian(W.F)

\* a wrapper that does not inherit the inner offset
WrappedField_OFFSET_Zero(W) == 0

WrappedField_OFFSET(W) == PrimitiveField_OFFSET(W.F)

\* a wrapper that reports the size of a 1 byte field
WrappedField_SIZE_One(W) == <<"Some", 1>>

WrappedField_SIZE(W) == PrimitiveField_SIZE(W.F)

\* a read that replaces a panicking conversion by the conversion of 0
WrappedField_read_Fallback(W, s, target) ==
    LET v == PrimitiveField_read(W.F, s, target)
        t == LayoutAs_read(W.T, v)
    IN  [storage |-> s,
         result |-> IF t.abort THEN LayoutAs_read(W.T, 0) ELSE t,
         trace |-> <<"F::read", "LayoutAs::read", "LayoutAs::read">>]

\* fn read(storage: &[u8]) -> T
WrappedField_read(W, s, target) ==
    LET v == PrimitiveField_read(W.F, s, target)
        t == LayoutAs_read(W.T, v)
    IN  [storage |-> s, result |-> t, trace |-> <<"F::read", "LayoutAs::read">>]

\* a write that converts but never stores
WrappedField_write_NoStore(W, s, t, target) ==
    LET v == LayoutAs_write(W.T, t)
    IN  IF v.abort
        THEN [storage |-> s, result |-> Abort, trace |-> <<"LayoutAs::write">>]
        ELSE [storage |-> s, result |-> Ok(UnitValue),
              trace |-> <<"LayoutAs::write">>]

\* a write that zeroes the buffer before it stores
WrappedField_write_Clear(W, s, t, target) ==
    LET v == LayoutAs_write(W.T, t)
        z == [i \in 1..Len(s) |-> 0]
    IN  IF v.abort
        THEN [storage |-> s, result |-> Abort, trace |-> <<"LayoutAs::write">>]
        ELSE [storage |-> PrimitiveField_write(W.F, z, v.value, target),
              result |-> Ok(UnitValue),
              trace |-> <<"LayoutAs::write", "F::write">>]

\* a write that stores the default value before it converts
WrappedField_write_StoreFirst(W, s, t, target) ==
    LET z == PrimitiveField_write(W.F, s, 0, target)
        v == LayoutAs_write(W.T, t)
    IN  IF v.abort
        THEN [storage |-> z, result |-> Abort,
              trace |-> <<"F::write", "LayoutAs::write">>]
        ELSE [storage |-> PrimitiveField_write(W.F, z, v.value, target),
              result |-> Ok(UnitValue),
              trace |-> <<"F::write", "LayoutAs::write", "F::write">>]

\* fn write(storage: &mut [u8], v: T)
WrappedField_write(W, s, t, target) ==
    LET v == LayoutAs_write(W.T, t)
    IN  IF v.abort
        THEN [storage |-> s, result |-> Abort, trace |-> <<"LayoutAs::write">>]
        ELSE [storage |-> PrimitiveField_write(W.F, s, v.value, target),
              result |-> Ok(UnitValue),
              trace |-> <<"LayoutAs::write", "F::write">>]

\* FieldView::new(storage): binds the storage, nothing else
FieldView_new(mode, name, s) ==
    [storage |-> s, view |-> [mode |-> mode, field |-> name], trace |-> <<>>]

\* a view construction that reads the field eagerly
WrappedField_view_Eager(mode, name, s) ==
    [storage |-> s, view |-> [mode |-> mode, field |-> name],
     trace |-> <<"F::read", "LayoutAs::read">>]

\* fn view(storage: &[u8]) / fn view(storage: &mut [u8]) / fn into_view(storage: S)
WrappedField_view(mode, name, s) == FieldView_new(mode, name, s)

(***************************************************************************)
(* Inputs: layouts, domain values, initial buffers                         *)
(***************************************************************************)
\* Field1 and Field2 of test_wrapped_field, and a unit field of
\* test_wrapped_unit_field placed at one of its two offsets
TestLayout(type, endian, unitOffset) ==
    [Field1 |-> WrappedField(type, "Wrapped", PrimitiveField(type, endian, Offset1)),
     Field2 |-> WrappedField(type, "Wrapped", PrimitiveField(type, endian, Offset2)),
     Unit1  |-> WrappedField("unit", "Wrapped",
                             PrimitiveField("unit", "little", unitOffset))]

\* a total lossy conversion next to a partial one
LossyLayout ==
    [TestLayout("u16", "little", Offset1) EXCEPT
        !.Field1 = WrappedField("u16", "Percent", PrimitiveField("u16", "big", Offset1)),
        !.Field2 = WrappedField("u16", "Mode", PrimitiveField("u16", "little", Offset2))]

\* Field2 placed over the second byte of Field1
OverlapLayout ==
    [TestLayout("u16", "little", Offset2) EXCEPT
        !.Field2 = WrappedField("u16", "Percent",
                                PrimitiveField("u16", "big", Offset1 + 1))]

Layouts ==
    { TestLayout("u16", "little", Offset1), TestLayout("i16", "big", Offset2),
      TestLayout("u16", "native", Offset1), LossyLayout, OverlapLayout }

DomainValues(W) ==
    CASE W.T = "Wrapped" /\ W.U = "u16"  -> {Wrapped(500), Wrapped(2000)}
      [] W.T = "Wrapped" /\ W.U = "i16"  -> {Wrapped(500), Wrapped(-2000)}
      [] W.T = "Wrapped" /\ W.U = "unit" -> {Wrapped(UnitValue)}
      [] W.T = "Percent"                 -> {Percent(50), Percent(300)}
      [] W.T = "Mode"                    -> {Mode("Off"), Mode("On"), Mode("Auto")}

\* the buffer the caller starts with: zero-initialized as in the tests, or
\* holding bytes produced elsewhere (byte i is i mod 256)
InitialStorage(id) ==
    IF id = "zeros" THEN [i \in 1..StorageLen |-> 0]
                    ELSE [i \in 1..StorageLen |-> (i - 1) % 256]

(***************************************************************************)
(* Helpers used by the properties                                          *)
(***************************************************************************)
SizeValue(W) == WrappedField_SIZE(W)[2]

\* the byte indices (0 based) of the field's window [OFFSET, OFFSET+SIZE)
InWindow(W, i) ==
    i >= WrappedField_OFFSET(W) /\ i < WrappedField_OFFSET(W) + SizeValue(W)

Window(W) == { i \in 0..(StorageLen - 1) : InWindow(W, i) }

WindowBytes(W, s) ==
    SubSeq(s, WrappedField_OFFSET(W) + 1, WrappedField_OFFSET(W) + SizeValue(W))

Count(seq, x) == Cardinality({ i \in 1..Len(seq) : seq[i] = x })

(***************************************************************************)
(* State machine                                                           *)
(***************************************************************************)
Init ==
    /\ layout \in Layouts
    /\ targetEndian \in {"little", "big"}
    /\ initial \in {"zeros", "ramp"}
    /\ storage = InitialStorage(initial)
    /\ view = NoView
    /\ last = [op |-> "none", field |-> "none", value |-> NoValue,
               result |-> Ok(UnitValue), trace |-> <<>>]
    /\ lastWritten = [n \in FieldNames |-> NoValue]

DoRead(n) ==
    LET r == WrappedField_read(layout[n], storage, targetEndian)
    IN  /\ storage' = r.storage
        /\ last' = [op |-> "read", field |-> n, value |-> NoValue,
                    result |-> r.result, trace |-> r.trace]
        /\ UNCHANGED <<layout, targetEndian, view, lastWritten, initial>>

DoWrite(n, t) ==
    LET r == WrappedField_write(layout[n], storage, t, targetEndian)
    IN  /\ storage' = r.storage
        /\ last' = [op |-> "write", field |-> n, value |-> t,
                    result |-> r.result, trace |-> r.trace]
        /\ lastWritten' = IF r.result.abort THEN lastWritten
                          ELSE [lastWritten EXCEPT ![n] = t]
        /\ UNCHANGED <<layout, targetEndian, view, initial>>

\* Field::read(&storage)
Read(n) ==
    /\ view.mode \in {"none", "ref"}
    /\ DoRead(n)

\* Field::write(&mut storage, t)
Write(n, t) ==
    /\ view = NoView
    /\ DoWrite(n, t)

\* Field::view(&storage) / Field::view(&mut storage) / Field::into_view(storage)
View(mode, n) ==
    /\ view = NoView
    /\ LET r == WrappedField_view(mode, n, storage)
       IN  /\ storage' = r.storage
           /\ view' = r.view
           /\ last' = [op |-> "view", field |-> n, value |-> NoValue,
                       result |-> Ok(UnitValue), trace |-> r.trace]
    /\ UNCHANGED <<layout, targetEndian, lastWritten, initial>>

\* view.read()
ViewRead ==
    /\ view # NoView
    /\ DoRead(view.field)

\* view.write(t)
ViewWrite(t) ==
    /\ view.mode \in {"mut", "owned"}
    /\ DoWrite(view.field, t)

\* the view goes out of scope
ViewDrop ==
    /\ view # NoView
    /\ view' = NoView
    /\ UNCHANGED <<storage, layout, targetEndian, last, lastWritten, initial>>

Next ==
    \/ \E n \in FieldNames : Read(n)
    \/ \E n \in FieldNames : \E t \in DomainValues(layout[n]) : Write(n, t)
    \/ \E mode \in {"ref", "mut", "owned"} : \E n \in FieldNames : View(mode, n)
    \/ ViewRead
    \/ /\ view # NoView
       /\ \E t \in DomainValues(layout[view.field]) : ViewWrite(t)
    \/ ViewDrop

Spec == Init /\ [][Next]_vars

(***************************************************************************)
(* Properties                                                              *)
(***************************************************************************)
\* the field of the last operation
LastW == layout[last.field]

\* the conversion obeys read(write(t)) = t on the domain values
RoundTrips(W) ==
    \A t \in DomainValues(W) :
        LET u == LayoutAs_write(W.T, t)
        IN  /\ ~u.abort
            /\ ~LayoutAs_read(W.T, u.value).abort
            /\ LayoutAs_read(W.T, u.value).value = t

\* the windows of the layout's fields are pairwise disjoint
Disjoint(A, B) == \A i \in Window(A) : ~InWindow(B, i)

PairwiseDisjoint(l) ==
    \A a, b \in FieldNames : a # b => Disjoint(l[a], l[b])

\* the underlying value held by the field's window, decoded with the
\* decoding of the field's byte order
DecodeWindow(W, s, target) ==
    Decode(WrappedField_Endian(W), W.U, WindowBytes(W, s), target)

\* C1: for a conversion with read(write(t)) = t, a successful write of t
\* through a field followed by a read of that field returns t, for each
\* byte order of the inner field.
C1_RoundTrip ==
    [][ ( /\ last.op = "write" /\ ~last.result.abort
          /\ last'.op = "read" /\ last'.field = last.field
          /\ RoundTrips(layout[last.field]) )
        => ( /\ ~last'.result.abort
             /\ last'.result.value = last.value ) ]_vars

C1_Witness ==
    /\ last.op = "read" /\ last.field = "Field2"
    /\ RoundTrips(LastW)
    /\ WrappedField_Endian(LastW) = "native" /\ targetEndian = "big"
    /\ lastWritten["Field2"] = Wrapped(2000)
    /\ ~last.result.abort /\ last.result.value = Wrapped(2000)

\* C2: the wrapped field's OFFSET, SIZE and Endian are those of its inner
\* field (Field1 sits at offset 5 with the size of its underlying type, a
\* wrapped unit field has SIZE = Some(0)), and no operation changes them.
C2_Preserved ==
    \A n \in FieldNames :
        LET W == layout[n]
        IN  /\ WrappedField_OFFSET(W) = PrimitiveField_OFFSET(W.F)
            /\ WrappedField_SIZE(W) = PrimitiveField_SIZE(W.F)
            /\ WrappedField_Endian(W) = PrimitiveField_Endian(W.F)
            /\ W.U = "unit" => WrappedField_SIZE(W) = <<"Some", 0>>
            /\ n = "Field1" => /\ WrappedField_OFFSET(W) = Offset1
                               /\ WrappedField_SIZE(W) = <<"Some", 2>>

C2_OffsetSizePreserved ==
    /\ []C2_Preserved
    /\ [][ \A n \in FieldNames :
             /\ WrappedField_OFFSET(layout'[n]) = WrappedField_OFFSET(layout[n])
             /\ WrappedField_SIZE(layout'[n]) = WrappedField_SIZE(layout[n])
             /\ WrappedField_Endian(layout'[n]) = WrappedField_Endian(layout[n]) ]_vars

C2_Witness ==
    /\ last.op = "write" /\ last.field = "Unit1"
    /\ lastWritten["Field2"] # NoValue
    /\ WrappedField_OFFSET(layout["Field2"]) = Offset2
    /\ WrappedField_OFFSET(layout["Unit1"]) = Offset2
    /\ WrappedField_SIZE(layout["Unit1"]) = <<"Some", 0>>
    /\ WrappedField_Endian(layout["Field2"]) = "big"

\* C3: a write through field A changes no byte outside A's window; a field
\* B whose window is disjoint from A's keeps its bytes and a read of B
\* returns what it returned before the write.
C3_NonInterference ==
    [][ last'.op = "write" =>
          LET A == layout[last'.field]
          IN  /\ \A i \in 0..(StorageLen - 1) :
                    ~InWindow(A, i) => storage'[i + 1] = storage[i + 1]
              /\ \A m \in FieldNames :
                    LET B == layout[m]
                    IN  (m # last'.field /\ Disjoint(A, B)) =>
                          /\ WindowBytes(B, storage') = WindowBytes(B, storage)
                          /\ WrappedField_read(B, storage', targetEndian).result
                               = WrappedField_read(B, storage, targetEndian).result
      ]_vars

C3_Witness ==
    /\ last.op = "write" /\ last.field = "Field1" /\ ~last.result.abort
    /\ PairwiseDisjoint(layout)
    /\ WindowBytes(LastW, storage) # WindowBytes(LastW, InitialStorage(initial))
    /\ lastWritten["Field2"] = Wrapped(-2000)
    /\ WrappedField_read(layout["Field2"], storage, targetEndian).result
         = Ok(Wrapped(-2000))

C5_ZeroSizeNoOp ==
    [][ (last'.op = "write" /\ WrappedField_SIZE(layout[last'.field]) = <<"Some", 0>>)
          => storage' = storage ]_vars

C5_Witness ==
    /\ last.op = "write" /\ last.field = "Unit1" /\ ~last.result.abort
    /\ WrappedField_SIZE(LastW) = <<"Some", 0>>
    /\ initial = "ramp"
    /\ lastWritten["Unit1"] = Wrapped(UnitValue)
    /\ lastWritten["Field1"] # NoValue

\* C6: a write whose conversion panics never reaches the inner field's
\* write and leaves every byte of the buffer as it was; a write whose
\* conversion returns calls the conversion first and the inner write second.
C6_FailedConversionNoWrite ==
    [][ last'.op = "write" =>
          IF last'.result.abort
          THEN /\ storage' = storage
               /\ Count(last'.trace, "F::write") = 0
          ELSE last'.trace = <<"LayoutAs::write", "F::write">> ]_vars

C6_Witness ==
    /\ last.op = "write" /\ last.field = "Field2" /\ last.result.abort
    /\ last.value = Mode("Auto")
    /\ lastWritten["Field2"] = Mode("On")
    /\ DecodeWindow(LastW, storage, targetEndian) = 1

\* underlying values the conversions are tried on
USamples == {-2000, -1, 0, 1, 2, 50, 100, 101, 300, 500, 2000, 31611, 65535}

\* the conversion's read returns for every underlying value
TotalRead(T) == \A u \in USamples : ~LayoutAs_read(T, u).abort

\* C7: a read through a field whose conversion is total never panics, and
\* a read through any field panics exactly when the conversion's read
\* panics on the underlying value that the field's window decodes to.
C7_ReadFailure ==
    last.op = "read" =>
        /\ TotalRead(LastW.T) => ~last.result.abort
        /\ last.result.abort
             <=> LayoutAs_read(LastW.T,
                               DecodeWindow(LastW, storage, targetEndian)).abort

C7_Witness ==
    /\ last.op = "read" /\ last.field = "Field2" /\ last.result.abort
    /\ ~TotalRead(LastW.T)
    /\ initial = "ramp" /\ lastWritten["Field2"] = NoValue
    /\ DecodeWindow(LastW, storage, targetEndian) = 31867

\* C8: a read returns LayoutAs::read(F::read(storage)) with one call of the
\* conversion, leaves the buffer unchanged, does not depend on a byte
\* outside the field's window, and returns the same again when repeated.
C8_ReadIsComposition ==
    [][ last'.op = "read" =>
          LET W == layout[last'.field]
          IN  /\ storage' = storage
              /\ last'.result
                   = LayoutAs_read(W.T, PrimitiveField_read(W.F, storage, targetEndian))
              /\ last'.trace = <<"F::read", "LayoutAs::read">>
              /\ Count(last'.trace, "LayoutAs::read") = 1
              /\ \A i \in 0..(StorageLen - 1) :
                    ~InWindow(W, i) =>
                       WrappedField_read(W,
                           [storage EXCEPT ![i + 1] = (@ + 1) % 256],
                           targetEndian).result = last'.result
              /\ (last.op = "read" /\ last.field = last'.field)
                    => last'.result = last.result ]_vars

C8_Witness ==
    /\ last.op = "read" /\ last.field = "Field1"
    /\ LastW.T = "Percent"
    /\ lastWritten["Field1"] = Percent(300)
    /\ last.result = Ok(Percent(100))
    /\ last.trace = <<"F::read", "LayoutAs::read">>

\* C9: constructing a view (borrowed, mutably borrowed or owned) calls
\* neither the inner field nor the conversion, cannot panic, leaves the
\* buffer unchanged and binds the field; a read or write made while the
\* view is bound is what transcodes.
C9_ViewNeverTranscodes ==
    [][ /\ (view = NoView /\ view' # NoView) =>
              /\ last'.op = "view"
              /\ last'.trace = <<>>
              /\ ~last'.result.abort
              /\ storage' = storage
              /\ view'.mode \in {"ref", "mut", "owned"}
              /\ view'.field = last'.field
        /\ (view # NoView /\ view' = view /\ last'.op # "view") =>
              /\ last'.op \in {"read", "write"}
              /\ last'.trace # <<>> ]_vars

C9_Witness ==
    /\ view = [mode |-> "owned", field |-> "Field2"]
    /\ last.op = "view" /\ last.field = "Field2" /\ last.trace = <<>>
    /\ LastW.T = "Mode"
    /\ initial = "ramp" /\ storage = InitialStorage(initial)
    /\ WrappedField_read(LastW, storage, targetEndian).result.abort

\* what a read of field n must return: the conversion's image of the value
\* last written to n, or the decoding of the initial bytes
Expected(n) ==
    LET W == layout[n]
    IN  IF lastWritten[n] = NoValue
        THEN LayoutAs_read(W.T,
                 DecodeWindow(W, InitialStorage(initial), targetEndian))
        ELSE LayoutAs_read(W.T, LayoutAs_write(W.T, lastWritten[n]).value)

\* C10: over fields with pairwise disjoint windows, after any interleaving
\* of writes, a read of a field returns read(write(t)) for the value t last
\* written to it (also when that differs from t), and the decoding of the
\* initial bytes if it was never written.
C10_LastWriteWins ==
    PairwiseDisjoint(layout) =>
        /\ \A n \in FieldNames :
              WrappedField_read(layout[n], storage, targetEndian).result = Expected(n)
        /\ last.op = "read" => last.result = Expected(last.field)

C10_Witness ==
    /\ PairwiseDisjoint(layout)
    /\ last.op = "read" /\ last.field = "Field1"
    /\ lastWritten["Field1"] = Percent(300)
    /\ last.result = Ok(Percent(100))
    /\ lastWritten["Field2"] = Mode("On")
    /\ lastWritten["Unit1"] # NoValue

====
